---- MODULE Spec2Model ----
(***************************************************************************)
(* Model of scripts/generate-docs.mjs: the remark plugins rewriteLink,     *)
(* wrapProblemExample, convertToAdmonitions and makeRuleSymbolsAccessbile, *)
(* the unist-util-visit walk they run under, and processMarkdown, which    *)
(* chains them, serialises the tree and prepends the front matter.         *)
(*                                                                         *)
(* Sequences are 1-based here: a JavaScript index k is position k + 1.     *)
(* Text values are real strings; the two rule symbols, which are not       *)
(* ASCII, are written as the names of their code points, and the backquote *)
(* of serialised code, which a string here cannot hold, as an apostrophe.  *)
(***************************************************************************)
EXTENDS Integers, Sequences, FiniteSets, TLC

VARIABLES
    input,      \* the tree the parser delivered (never changed)
    rewriter,   \* options.rewriter: a function from urls to urls
    tree,       \* the root node being transformed
    pass,       \* the plugin that is running; "meta" after the last one
    offset,     \* the walk's position in the root's child list
    before,     \* the tree as the running plugin received it
    visited,    \* positions of the root children handed to the visitor so far
    calls,      \* number of visitor invocations of the running plugin
    status,     \* "running", "returned" or "thrown"
    output      \* what processMarkdown returned ("" while it has not)

vars == <<input, rewriter, tree, pass, offset, before, visited, calls, status, output>>

-----------------------------------------------------------------------------
(* Bounds of the model.                                                    *)

MaxLinkBlocks == 2
MaxWrapBlocks == 3
MaxAdmBlocks == 2
MaxSymBlocks == 2
MaxMetaBlocks == 2
MaxMixedBlocks == 2

-----------------------------------------------------------------------------
(* mdast nodes.                                                            *)

Text(v) == [type |-> "text", value |-> v]
InlineCode(v) == [type |-> "inlineCode", value |-> v]
Emphasis(ch) == [type |-> "emphasis", children |-> ch]
Strong(ch) == [type |-> "strong", children |-> ch]
Link(u, ch) == [type |-> "link", url |-> u, children |-> ch]
Paragraph(ch) == [type |-> "paragraph", children |-> ch]
Heading(d, ch) == [type |-> "heading", depth |-> d, children |-> ch]
Blockquote(ch) == [type |-> "blockquote", children |-> ch]
Code(v) == [type |-> "code", value |-> v]
Html(v) == [type |-> "html", value |-> v]
Table(ch) == [type |-> "table", children |-> ch]
TableRow(ch) == [type |-> "tableRow", children |-> ch]
TableCell(ch) == [type |-> "tableCell", children |-> ch]
Root(ch) == [type |-> "root", children |-> ch]

\* A parsed node carries its position in the source; a node a plugin makes
\* carries none.
WithPosition(n, k) == n @@ ("position" :> k)

HasChildren(n) == "children" \in DOMAIN n
HasValue(n) == "value" \in DOMAIN n
HasPosition(n) == "position" \in DOMAIN n

-----------------------------------------------------------------------------
(* Strings and arrays.                                                     *)

IsWhiteSpace(c) == c \in {" ", "\t", "\n"}

RECURSIVE trimStart(_)
trimStart(s) ==
    IF Len(s) > 0 /\ IsWhiteSpace(SubSeq(s, 1, 1))
    THEN trimStart(SubSeq(s, 2, Len(s)))
    ELSE s

RECURSIVE trimEnd(_)
trimEnd(s) ==
    IF Len(s) > 0 /\ IsWhiteSpace(SubSeq(s, Len(s), Len(s)))
    THEN trimEnd(SubSeq(s, 1, Len(s) - 1))
    ELSE s

Min(S) == CHOOSE k \in S : \A j \in S : k <= j

\* array.splice(k - 1, 0, ...items)
InsertAt(s, k, items) == SubSeq(s, 1, k - 1) \o items \o SubSeq(s, k, Len(s))

\* array.splice(k - 1, 1)
RemoveAt(s, k) == SubSeq(s, 1, k - 1) \o SubSeq(s, k + 1, Len(s))

-----------------------------------------------------------------------------
(* rewriteLink.                                                            *)

\* What a visitor hands back to the walk: the parent as the visitor left it,
\* where the visited node now sits in it (0: no longer a child) and whether
\* the visitor returned (ok) or threw.
Visited(parent, at, ok) == [parent |-> parent, at |-> at, ok |-> ok]

\* Mutant: the rewriter is applied to its own result.
rewriteLinkVisitorTwice(node, index, parent) ==
    Visited([parent EXCEPT !.children[index].url = rewriter[rewriter[node.url]]],
            index, TRUE)

rewriteLinkVisitor(node, index, parent) ==
    Visited([parent EXCEPT !.children[index].url = rewriter[node.url]], index, TRUE)

-----------------------------------------------------------------------------
(* wrapProblemExample.                                                     *)

TriggerTexts ==
    { "The following patterns are considered problems:",
      "The following pattern is considered a problem:" }

\* first?.value ?? ''
ValueOrEmpty(children, k) ==
    IF k <= Len(children) /\ HasValue(children[k]) THEN children[k].value ELSE ""

isTrigger(node) ==
    IF node.type # "paragraph" THEN FALSE
    ELSE IF ~HasChildren(node) THEN FALSE
    ELSE (trimEnd(ValueOrEmpty(node.children, 1)) \o ValueOrEmpty(node.children, 3))
            \in TriggerTexts

\* node.children[1]?.children[0]?.value === 'not' throws when the second child
\* exists and has no children array.
isValidThrows(node) ==
    Len(node.children) >= 2 /\ ~HasChildren(node.children[2])

\* Mutant: the first child is inspected instead of the second.
isValidOfFirstChild(node) ==
    /\ Len(node.children) >= 1
    /\ HasChildren(node.children[1])
    /\ Len(node.children[1].children) >= 1
    /\ HasValue(node.children[1].children[1])
    /\ node.children[1].children[1].value = "not"

isValid(node) ==
    /\ Len(node.children) >= 2
    /\ HasChildren(node.children[2])
    /\ Len(node.children[2].children) >= 1
    /\ HasValue(node.children[2].children[1])
    /\ node.children[2].children[1].value = "not"

className(node) == IF isValid(node) THEN "valid-pattern" ELSE "invalid-pattern"

wrapperStart(node) == Html("<div class=\"" \o className(node) \o "\">")
wrapperEnd == Html("</div>")

\* Mutant: the loop stops at the next trigger only, not at a heading.
RECURSIVE FindEndIndexPastHeadings(_, _)
FindEndIndexPastHeadings(children, e) ==
    IF e > Len(children) THEN e
    ELSE IF isTrigger(children[e]) THEN e
    ELSE FindEndIndexPastHeadings(children, e + 1)

\* The while loop of the visitor, from position e of the child list.
RECURSIVE FindEndIndex(_, _)
FindEndIndex(children, e) ==
    IF e > Len(children) THEN e
    ELSE IF isTrigger(children[e]) \/ children[e].type = "heading" THEN e
    ELSE FindEndIndex(children, e + 1)

wrapProblemExampleVisitor(node, index, parent) ==
    IF isValidThrows(node) THEN Visited(parent, index, FALSE)
    ELSE
        LET opened == InsertAt(parent.children, index + 1, <<wrapperStart(node)>>)
            endIndex == FindEndIndex(opened, index + 1)
            closed == IF endIndex = Len(opened) + 1
                      THEN Append(opened, wrapperEnd)
                      ELSE InsertAt(opened, endIndex, <<wrapperEnd>>)
        IN Visited([parent EXCEPT !.children = closed], index, TRUE)

-----------------------------------------------------------------------------
(* convertToAdmonitions.                                                   *)

gfmToAdmonitions == [Note |-> "note", Warning |-> "caution"]

\* The visitor reads blockquote.children[0].type and paragraph.children[0].type
\* without a guard.
admonitionThrows(blockquote) ==
    \/ Len(blockquote.children) = 0
    \/ /\ blockquote.children[1].type = "paragraph"
       /\ Len(blockquote.children[1].children) = 0

\* The strong run's text when the blockquote converts, "" when it does not.
gfmTypeOf(blockquote) ==
    LET paragraph == blockquote.children[1]
        strong == paragraph.children[1]
    IN IF paragraph.type # "paragraph" THEN ""
       ELSE IF strong.type # "strong" THEN ""
       ELSE IF Len(strong.children) = 0 THEN ""
       ELSE IF ~HasValue(strong.children[1]) THEN ""
       ELSE IF strong.children[1].value \notin DOMAIN gfmToAdmonitions THEN ""
       ELSE strong.children[1].value

\* Mutant: the forEach trims every child that has a value.
RECURSIVE trimmedAll(_)
trimmedAll(children) ==
    IF Len(children) = 0 THEN <<>>
    ELSE <<IF HasValue(children[1]) /\ children[1].value # ""
           THEN [children[1] EXCEPT !.value = trimStart(children[1].value)]
           ELSE children[1]>> \o trimmedAll(Tail(children))

trimmedRestOfAll(paragraph) == trimmedAll(Tail(paragraph.children))

\* restChildren after the forEach that trims the first of them.
trimmedRest(paragraph) ==
    LET restChildren == Tail(paragraph.children)
    IN IF /\ Len(restChildren) > 0
          /\ HasValue(restChildren[1])
          /\ restChildren[1].value # ""
       THEN <<[restChildren[1] EXCEPT !.value = trimStart(restChildren[1].value)]>>
            \o Tail(restChildren)
       ELSE restChildren

admonitionNodes(blockquote) ==
    LET gfmType == gfmTypeOf(blockquote)
        admType == gfmToAdmonitions[gfmType]
    IN << Paragraph(<<Text(":::" \o admType \o " " \o gfmType)>>),
          Paragraph(trimmedRest(blockquote.children[1])),
          Paragraph(<<Text(":::")>>) >>

convertToAdmonitionsVisitor(blockquote, index, parent) ==
    IF admonitionThrows(blockquote) THEN Visited(parent, index, FALSE)
    ELSE IF gfmTypeOf(blockquote) = "" THEN Visited(parent, index, TRUE)
    ELSE
        LET inserted == InsertAt(parent.children, index + 1, admonitionNodes(blockquote))
        IN Visited([parent EXCEPT !.children = RemoveAt(inserted, index)], 0, TRUE)

-----------------------------------------------------------------------------
(* makeRuleSymbolsAccessbile.                                              *)

CheckMark == "U+2705"
Wrench == "U+1F527"

symbols == (CheckMark :> "Standard") @@ (Wrench :> "Autofixable")

makeRuleSymbolsAccessbileVisitor(node, index, parent) ==
    LET symbol == node.value
        name == symbols[symbol]
    IN Visited([parent EXCEPT !.children =
                    <<Html("<span title=\"" \o name \o "\">" \o symbol \o "</span>")>>],
               0, TRUE)

-----------------------------------------------------------------------------
(* visit(tree, test, visitor).                                             *)

Passes == <<"link", "wrap", "adm", "sym">>

\* The test each plugin hands to visit.
Matches(p, node) ==
    CASE p = "link" -> node.type = "link"
      [] p = "wrap" -> isTrigger(node)
      [] p = "adm" -> node.type = "blockquote"
      [] p = "sym" -> node.type = "text" /\ node.value \in DOMAIN symbols

Visitor(p, node, index, parent) ==
    CASE p = "link" -> rewriteLinkVisitor(node, index, parent)
      [] p = "wrap" -> wrapProblemExampleVisitor(node, index, parent)
      [] p = "adm" -> convertToAdmonitionsVisitor(node, index, parent)
      [] p = "sym" -> makeRuleSymbolsAccessbileVisitor(node, index, parent)

\* The result of walking: the parent, whether no visitor threw, and how many
\* times the visitor was called.
Walked(parent, ok, n) == [parent |-> parent, ok |-> ok, n |-> n]

RECURSIVE VisitChild(_, _, _), WalkChildren(_, _, _)

\* One turn of the walk's loop over parent.children: the child at position at is
\* tested and handed to the visitor, then its own children are walked (those
\* of the node as the visitor left it, also when it is no longer a child).
VisitChild(p, parent, at) ==
    LET node == parent.children[at]
        hit == Matches(p, node)
        v == IF hit THEN Visitor(p, node, at, parent) ELSE Visited(parent, at, TRUE)
        n == IF hit THEN 1 ELSE 0
        seen == IF v.at = 0 THEN node ELSE v.parent.children[v.at]
    IN IF ~v.ok THEN Walked(v.parent, FALSE, n)
       ELSE IF ~HasChildren(seen) THEN Walked(v.parent, TRUE, n)
       ELSE LET w == WalkChildren(p, seen, 1)
            IN Walked(IF v.at = 0 THEN v.parent
                      ELSE [v.parent EXCEPT !.children[v.at] = w.parent],
                      w.ok, n + w.n)

\* The loop: the child list and its length are read again on every turn.
WalkChildren(p, parent, from) ==
    IF from > Len(parent.children) THEN Walked(parent, TRUE, 0)
    ELSE LET r == VisitChild(p, parent, from)
         IN IF ~r.ok THEN r
            ELSE LET rest == WalkChildren(p, r.parent, from + 1)
                 IN Walked(rest.parent, rest.ok, r.n + rest.n)

-----------------------------------------------------------------------------
(* .toString(): remark-stringify.                                          *)

RECURSIVE Hashes(_)
Hashes(d) == IF d = 0 THEN "" ELSE "#" \o Hashes(d - 1)

RECURSIVE ToMarkdown(_), ChildrenToMarkdown(_, _, _)

\* The children of n from position i on, serialised and joined by sep.
ChildrenToMarkdown(n, i, sep) ==
    IF i > Len(n.children) THEN ""
    ELSE IF i = Len(n.children) THEN ToMarkdown(n.children[i])
    ELSE ToMarkdown(n.children[i]) \o sep \o ChildrenToMarkdown(n, i + 1, sep)

ToMarkdown(n) ==
    CASE n.type = "text" -> n.value
      [] n.type = "html" -> n.value
      [] n.type = "inlineCode" -> "'" \o n.value \o "'"
      [] n.type = "code" -> "'''\n" \o n.value \o "\n'''"
      [] n.type = "emphasis" -> "*" \o ChildrenToMarkdown(n, 1, "") \o "*"
      [] n.type = "strong" -> "**" \o ChildrenToMarkdown(n, 1, "") \o "**"
      [] n.type = "link" -> "[" \o ChildrenToMarkdown(n, 1, "") \o "](" \o n.url \o ")"
      [] n.type = "paragraph" -> ChildrenToMarkdown(n, 1, "")
      [] n.type = "heading" -> Hashes(n.depth) \o " " \o ChildrenToMarkdown(n, 1, "")
      [] n.type = "blockquote" ->
            IF Len(n.children) = 0 THEN ">"
            ELSE "> " \o ChildrenToMarkdown(n, 1, "\n>\n> ")
      [] n.type = "tableCell" -> ChildrenToMarkdown(n, 1, "")
      [] n.type = "tableRow" -> "| " \o ChildrenToMarkdown(n, 1, " | ") \o " |"
      [] n.type = "table" -> ChildrenToMarkdown(n, 1, "\n")
      [] n.type = "root" ->
            IF Len(n.children) = 0 THEN ""
            ELSE ChildrenToMarkdown(n, 1, "\n\n") \o "\n"

-----------------------------------------------------------------------------
(* processMarkdown: the front matter.                                      *)

\* The first newline of s at or after position k (0: none).
IndexOfNewline(s, k) ==
    LET at == {j \in k..Len(s) : SubSeq(s, j, j) = "\n"}
    IN IF at = {} THEN 0 ELSE Min(at)

\* /\n?# ([^\n]+)\n/ matches with its "# " at position k.
HashSpaceAt(s, k) ==
    /\ k + 2 <= Len(s)
    /\ SubSeq(s, k, k + 1) = "# "
    /\ SubSeq(s, k + 2, k + 2) # "\n"
    /\ IndexOfNewline(s, k + 3) # 0

\* content.match(/\n?# ([^\n]+)\n/): where the leftmost match has its "# "
\* (0: the match is null).
MatchIndex(s) ==
    LET at == {k \in 1..Len(s) : HashSpaceAt(s, k)}
    IN IF at = {} THEN 0 ELSE Min(at)

\* match[1]
Group1(s, k) == SubSeq(s, k + 2, IndexOfNewline(s, k + 3) - 1)

\* What a name looked up on an object literal finds on Object.prototype, as a
\* template literal prints it.
ObjectPrototype ==
    [constructor |-> "function Object() { [native code] }",
     toString |-> "function toString() { [native code] }",
     valueOf |-> "function valueOf() { [native code] }",
     hasOwnProperty |-> "function hasOwnProperty() { [native code] }"]

titleToSidebarLabel == [Stylelint |-> "Home"]

\* titleToSidebarLabel[title] || title
sidebarLabelOf(title) ==
    IF title \in DOMAIN titleToSidebarLabel THEN titleToSidebarLabel[title]
    ELSE IF title \in DOMAIN ObjectPrototype THEN ObjectPrototype[title]
    ELSE title

isHomepage(title) == title = "Stylelint"

metaOf(title0) ==
    LET sidebarLabel == sidebarLabelOf(title0)
        title == IF isHomepage(title0) THEN sidebarLabel ELSE title0
    IN <<<<"title", title>>, <<"sidebar_label", sidebarLabel>>>>
       \o (IF isHomepage(title0) THEN <<<<"slug", "/">>>> ELSE <<>>)

\* The for loop over meta, from item i on.
RECURSIVE metaLines(_, _)
metaLines(meta, i) ==
    IF i > Len(meta) THEN ""
    ELSE meta[i][1] \o ": " \o meta[i][2] \o "\n" \o metaLines(meta, i + 1)

frontMatter(title0) == "---\n" \o metaLines(metaOf(title0), 1) \o "---"

-----------------------------------------------------------------------------
(* The documents the model is run on.                                      *)

Urls == {"docs/a.md", "/a.md"}
Rewriters == [Urls -> Urls]
Identity == [u \in Urls |-> u]

SeqsUpTo(S, n) == UNION {[1..k -> S] : k \in 1..n}

LinkTo(u) == Link(u, <<Text("a")>>)

LinkBlocks ==
    {Paragraph(<<Text("see "), LinkTo(u)>>) : u \in Urls}
    \cup { Paragraph(<<Emphasis(<<LinkTo("docs/a.md")>>), LinkTo("/a.md")>>),
           Blockquote(<<Paragraph(<<LinkTo("docs/a.md")>>)>>),
           Paragraph(<<Text("plain")>>) }

NotTrigger ==
    Paragraph(<<Text("The following patterns are "), Emphasis(<<Text("not")>>),
                Text(" considered problems:")>>)

WrapBlocks ==
    { Paragraph(<<Text("The following patterns are considered problems:")>>),
      Paragraph(<<Text("The following pattern is considered a problem:")>>),
      NotTrigger,
      Paragraph(<<Text("The following patterns are "), InlineCode("a"),
                  Text(" considered problems:")>>),
      Paragraph(<<Text("x is "), Emphasis(<<Text("not")>>), Text(" y")>>),
      Heading(2, <<Text("Options")>>),
      Code("a {}") }

NoteBlockquote ==
    Blockquote(<<Paragraph(<<Strong(<<Text("Note")>>), Text("  be "),
                             Emphasis(<<Text(" very")>>), Text(" careful")>>)>>)

AdmBlocks ==
    { NoteBlockquote,
      Blockquote(<<Paragraph(<<Strong(<<Text("Warning")>>), InlineCode(" a")>>),
                   Paragraph(<<Text("more")>>), Code("b {}")>>),
      Blockquote(<<Paragraph(<<Strong(<<Text("Note")>>)>>),
                   Blockquote(<<Paragraph(<<Text("inner")>>)>>)>>),
      Blockquote(<<Paragraph(<<Strong(<<Text("Tip")>>), Text(" t")>>)>>),
      Blockquote(<<Paragraph(<<Text("quoted")>>)>>),
      Blockquote(<<Code("c {}")>>),
      Blockquote(<<>>),
      Paragraph(<<Text("plain")>>) }

SymBlocks ==
    { Paragraph(<<Text(CheckMark)>>),
      Paragraph(<<Text(CheckMark \o " rule")>>),
      Paragraph(<<Text(CheckMark), Emphasis(<<Text("x")>>)>>),
      Paragraph(<<Strong(<<Text("y")>>), Text(Wrench), InlineCode("z")>>),
      Table(<<TableRow(<<TableCell(<<Text("rule")>>), TableCell(<<Text(CheckMark)>>),
                         TableCell(<<Text(Wrench)>>)>>)>>),
      Heading(1, <<Text("Rules")>>) }

MetaBlocks ==
    { Heading(1, <<Text("Stylelint")>>),
      Heading(1, <<Text("Foo")>>),
      Heading(1, <<Text("constructor")>>),
      Heading(2, <<Text("Stylelint")>>),
      Heading(2, <<Text("Usage")>>),
      Code("# comment"),
      Paragraph(<<Text("text")>>) }

MixedBlocks ==
    { Heading(1, <<Text("Foo")>>),
      NotTrigger,
      NoteBlockquote,
      Paragraph(<<Text(CheckMark)>>),
      Paragraph(<<Text("see "), LinkTo("docs/a.md")>>) }

\* remark().parse: the nodes of the document get their positions.
RECURSIVE PositionedFrom(_, _)
PositionedFrom(doc, k) ==
    IF k > Len(doc) THEN <<>>
    ELSE <<WithPosition(doc[k], k)>> \o PositionedFrom(doc, k + 1)

Parsed(doc) == Root(PositionedFrom(doc, 1))

-----------------------------------------------------------------------------
(* processMarkdown as a state machine: one action per turn of a plugin's   *)
(* walk over the root's children.                                          *)

Start(doc, rw) ==
    /\ input = Parsed(doc)
    /\ rewriter = rw
    /\ tree = Parsed(doc)
    /\ pass = "link"
    /\ offset = 1
    /\ before = Parsed(doc)
    /\ visited = <<>>
    /\ calls = 0
    /\ status = "running"
    /\ output = ""

Init ==
    \/ \E doc \in SeqsUpTo(LinkBlocks, MaxLinkBlocks), rw \in Rewriters : Start(doc, rw)
    \/ \E doc \in SeqsUpTo(WrapBlocks, MaxWrapBlocks) : Start(doc, Identity)
    \/ \E doc \in SeqsUpTo(AdmBlocks, MaxAdmBlocks) : Start(doc, Identity)
    \/ \E doc \in SeqsUpTo(SymBlocks, MaxSymBlocks) : Start(doc, Identity)
    \/ \E doc \in SeqsUpTo(MetaBlocks, MaxMetaBlocks) : Start(doc, Identity)
    \/ \E doc \in SeqsUpTo(MixedBlocks, MaxMixedBlocks), rw \in Rewriters : Start(doc, rw)

PositionOf(n) == IF HasPosition(n) THEN n.position ELSE 0

\* One turn of visit's loop over tree.children for plugin p.
Turn(p) ==
    /\ status = "running"
    /\ offset <= Len(tree.children)
    /\ LET node == tree.children[offset]
           r == VisitChild(p, tree, offset)
       IN /\ tree' = r.parent
          /\ calls' = calls + r.n
          /\ visited' = IF Matches(p, node) THEN Append(visited, PositionOf(node))
                        ELSE visited
          /\ offset' = IF r.ok THEN offset + 1 ELSE offset
          /\ status' = IF r.ok THEN "running" ELSE "thrown"
    /\ UNCHANGED <<input, rewriter, pass, before, output>>

RewriteLinkTurn ==
    /\ pass = "link"
    /\ Turn("link")

WrapProblemExampleTurn ==
    /\ pass = "wrap"
    /\ Turn("wrap")

ConvertToAdmonitionsTurn ==
    /\ pass = "adm"
    /\ Turn("adm")

MakeRuleSymbolsAccessbileTurn ==
    /\ pass = "sym"
    /\ Turn("sym")

NextPass(p) ==
    CASE p = "link" -> "wrap"
      [] p = "wrap" -> "adm"
      [] p = "adm" -> "sym"
      [] p = "sym" -> "meta"

\* The walk has passed the last child: the plugin returns, the next one runs.
PassDone(p) == status = "running" /\ pass = p /\ offset > Len(tree.children)

NextPlugin ==
    /\ \E p \in {"link", "wrap", "adm", "sym"} : PassDone(p) /\ pass' = NextPass(p)
    /\ offset' = 1
    /\ before' = tree
    /\ visited' = <<>>
    /\ calls' = 0
    /\ UNCHANGED <<input, rewriter, tree, status, output>>

\* Lines 165-198: the tree is serialised and the front matter prepended.
InjectMetadata ==
    /\ status = "running"
    /\ pass = "meta"
    /\ LET content == ToMarkdown(tree)
           m == MatchIndex(content)
       IN IF m = 0
          THEN status' = "thrown" /\ output' = output
          ELSE /\ status' = "returned"
               /\ output' = frontMatter(Group1(content, m)) \o "\n\n" \o content
    /\ UNCHANGED <<input, rewriter, tree, pass, offset, before, visited, calls>>

Next ==
    \/ RewriteLinkTurn
    \/ WrapProblemExampleTurn
    \/ ConvertToAdmonitionsTurn
    \/ MakeRuleSymbolsAccessbileTurn
    \/ NextPlugin
    \/ InjectMetadata

Spec == Init /\ [][Next]_vars

-----------------------------------------------------------------------------
(* Vocabulary of the claims.                                               *)

RootChildren == tree.children
IndicesOf(ch) == 1..Len(ch)

\* n with every link's url sent through the rewriter once, nothing else touched.
RECURSIVE Rewritten(_), RewrittenFrom(_, _)
RewrittenFrom(ch, i) ==
    IF i > Len(ch) THEN <<>>
    ELSE <<Rewritten(ch[i])>> \o RewrittenFrom(ch, i + 1)

Rewritten(n) ==
    LET m == IF n.type = "link" THEN [n EXCEPT !.url = rewriter[n.url]] ELSE n
    IN IF HasChildren(m) THEN [m EXCEPT !.children = RewrittenFrom(m.children, 1)] ELSE m

RECURSIVE CountLinks(_), CountLinksFrom(_, _)
CountLinksFrom(ch, i) ==
    IF i > Len(ch) THEN 0
    ELSE CountLinks(ch[i]) + CountLinksFrom(ch, i + 1)

CountLinks(n) ==
    (IF n.type = "link" THEN 1 ELSE 0)
    + (IF HasChildren(n) THEN CountLinksFrom(n.children, 1) ELSE 0)

Idempotent(f) == \A u \in DOMAIN f : f[f[u]] = f[u]

ClassMarker(valid) ==
    Html("<div class=\"" \o (IF valid THEN "valid-pattern" ELSE "invalid-pattern") \o "\">")

IsOpening(n) == n = ClassMarker(TRUE) \/ n = ClassMarker(FALSE)
IsClosing(n) == n = Html("</div>")
NotMarker(n) == ~IsOpening(n) /\ ~IsClosing(n)
IsBoundary(n) == isTrigger(n) \/ n.type = "heading"

\* The first sibling after position i that is a trigger or a heading
\* (Len(ch) + 1: there is none).
BoundaryAfter(ch, i) ==
    IF \E k \in (i + 1)..Len(ch) : IsBoundary(ch[k])
    THEN CHOOSE k \in (i + 1)..Len(ch) :
            IsBoundary(ch[k]) /\ \A j \in (i + 1)..(k - 1) : ~IsBoundary(ch[j])
    ELSE Len(ch) + 1

\* The trigger at position i has its opening marker right after it and its
\* closing marker right before the next boundary, with no marker in between.
WrappedAt(ch, i) ==
    /\ i + 2 <= Len(ch)
    /\ IsOpening(ch[i + 1])
    /\ LET b == BoundaryAfter(ch, i)
       IN /\ b - 1 >= i + 2
          /\ IsClosing(ch[b - 1])
          /\ \A k \in (i + 2)..(b - 2) : NotMarker(ch[k])

\* The second inline child of paragraph p has a first nested text "not".
SaysNot(p) ==
    /\ HasChildren(p)
    /\ Len(p.children) >= 2
    /\ HasChildren(p.children[2])
    /\ Len(p.children[2].children) >= 1
    /\ p.children[2].children[1] = Text("not")

FollowingSaysNot(ch, i) ==
    /\ i + 1 <= Len(ch)
    /\ ch[i + 1].type = "paragraph"
    /\ SaysNot(ch[i + 1])

\* A blockquote whose first paragraph starts with a strong run of this text.
StartsWithStrong(n, label) ==
    /\ n.type = "blockquote"
    /\ Len(n.children) >= 1
    /\ n.children[1].type = "paragraph"
    /\ Len(n.children[1].children) >= 1
    /\ n.children[1].children[1].type = "strong"
    /\ Len(n.children[1].children[1].children) >= 1
    /\ n.children[1].children[1].children[1] = Text(label)

IsAdmonition(n) == StartsWithStrong(n, "Note") \/ StartsWithStrong(n, "Warning")

KindOf(n) == IF StartsWithStrong(n, "Note") THEN "note" ELSE "caution"
LabelOf(n) == IF StartsWithStrong(n, "Note") THEN "Note" ELSE "Warning"

\* The inline children after the strong run, the first one's leading
\* whitespace trimmed.
ContentOf(n) ==
    LET rest == Tail(n.children[1].children)
    IN IF Len(rest) > 0 /\ HasValue(rest[1])
       THEN <<[rest[1] EXCEPT !.value = trimStart(rest[1].value)]>> \o Tail(rest)
       ELSE rest

ThreeParagraphs(n) ==
    << Paragraph(<<Text(":::" \o KindOf(n) \o " " \o LabelOf(n))>>),
       Paragraph(ContentOf(n)),
       Paragraph(<<Text(":::")>>) >>

\* A child list, from position i on, with every admonition blockquote
\* replaced, where it stands, by its three paragraphs, and nothing else changed.
RECURSIVE AdmonishedFrom(_, _)
AdmonishedFrom(ch, i) ==
    IF i > Len(ch) THEN <<>>
    ELSE (IF IsAdmonition(ch[i]) THEN ThreeParagraphs(ch[i])
          ELSE IF HasChildren(ch[i])
          THEN <<[ch[i] EXCEPT !.children = AdmonishedFrom(ch[i].children, 1)]>>
          ELSE <<ch[i]>>)
         \o AdmonishedFrom(ch, i + 1)

Admonished(ch) == AdmonishedFrom(ch, 1)

SymbolLabel(v) == IF v = CheckMark THEN "Standard" ELSE "Autofixable"
IsSymbolText(n) == n.type = "text" /\ n.value \in {CheckMark, Wrench}
Span(v) == Html("<span title=\"" \o SymbolLabel(v) \o "\">" \o v \o "</span>")

\* n with each text node that is exactly a symbol replaced by its span, and
\* nothing else changed.
RECURSIVE Accessible(_), AccessibleFrom(_, _)
AccessibleFrom(ch, i) ==
    IF i > Len(ch) THEN <<>>
    ELSE <<Accessible(ch[i])>> \o AccessibleFrom(ch, i + 1)

Accessible(n) ==
    IF IsSymbolText(n) THEN Span(n.value)
    ELSE IF HasChildren(n) THEN [n EXCEPT !.children = AccessibleFrom(n.children, 1)]
    ELSE n

\* Node x is t or lies somewhere below t.
RECURSIVE Occurs(_, _)
Occurs(x, t) ==
    \/ x = t
    \/ HasChildren(t) /\ \E i \in IndicesOf(t.children) : Occurs(x, t.children[i])

\* The first ":::" paragraph after position i (Len(ch) + 1: there is none).
CloserAfter(ch, i) ==
    Min({j \in (i + 1)..Len(ch) : ch[j] = Paragraph(<<Text(":::")>>)} \cup {Len(ch) + 1})

\* The positions of the nodes of ch, from i on, that plugin p's test matches.
RECURSIVE MatchingPositions(_, _, _)
MatchingPositions(p, ch, i) ==
    IF i > Len(ch) THEN <<>>
    ELSE (IF Matches(p, ch[i]) THEN <<PositionOf(ch[i])>> ELSE <<>>)
         \o MatchingPositions(p, ch, i + 1)

\* How many of the nodes ch0 the admonition pass received the walk has passed
\* when it stands at position o: the fewest whose replacement fills the o - 1
\* positions behind it.
PassedBy(ch0, o) ==
    Min({r \in 0..Len(ch0) : Len(Admonished(SubSeq(ch0, 1, r))) >= o - 1}
        \cup {Len(ch0)})

IsPrefix(a, b) == Len(a) <= Len(b) /\ a = SubSeq(b, 1, Len(a))

IsH1(n) == n.type = "heading" /\ n.depth = 1
HasH1(t) == \E i \in IndicesOf(t.children) : IsH1(t.children[i])
FirstH1Title(t) ==
    ChildrenToMarkdown(t.children[Min({i \in IndicesOf(t.children) : IsH1(t.children[i])})],
                       1, "")

ClaimedPreamble(title) ==
    IF title = "Stylelint"
    THEN "---\ntitle: Home\nsidebar_label: Home\nslug: /\n---"
    ELSE "---\ntitle: " \o title \o "\nsidebar_label: " \o title \o "\n---"

-----------------------------------------------------------------------------
(* The claims.                                                             *)

\* C8: when the link pass has run, every link's url is rewriter(original url),
\* the rewriter was applied once per link, nothing else in the tree changed,
\* and with an idempotent rewriter a second run of the pass changes nothing.
C8_LinksRewrittenOnce ==
    /\ pass = "link" => status = "running"
    /\ PassDone("link") =>
        /\ tree = Rewritten(before)
        /\ calls = CountLinks(before)
        /\ Idempotent(rewriter) => WalkChildren("link", tree, 1).parent = tree

C8_Witness ==
    /\ PassDone("link")
    /\ calls >= 2
    /\ tree # before
    /\ Idempotent(rewriter)

\* C5: when the wrapping pass has run, every trigger is followed at once by its
\* opening marker, its closing marker stands right before the next trigger or
\* heading (or last), no marker lies inside another trigger's pair, and without
\* the markers the sibling list is the one the pass received.
C5_ExamplesWrapped ==
    PassDone("wrap") =>
        /\ \A i \in IndicesOf(RootChildren) :
                isTrigger(RootChildren[i]) => WrappedAt(RootChildren, i)
        /\ \A k \in IndicesOf(RootChildren) :
                IsOpening(RootChildren[k]) => k > 1 /\ isTrigger(RootChildren[k - 1])
        /\ Cardinality({k \in IndicesOf(RootChildren) : IsClosing(RootChildren[k])})
            = Cardinality({i \in IndicesOf(RootChildren) : isTrigger(RootChildren[i])})
        /\ SelectSeq(RootChildren, NotMarker) = before.children

\* A trigger right before a heading gets an empty pair, and so does a trigger
\* that is the last child.
C5_Witness ==
    /\ PassDone("wrap")
    /\ Len(RootChildren) = 7
    /\ isTrigger(RootChildren[1]) /\ IsOpening(RootChildren[2]) /\ IsClosing(RootChildren[3])
    /\ RootChildren[4].type = "heading"
    /\ isTrigger(RootChildren[5]) /\ IsOpening(RootChildren[6]) /\ IsClosing(RootChildren[7])

\* C4 as stated: the class of a trigger's wrapper is valid-pattern exactly when
\* the paragraph that followed the trigger says "not" in its second child.
C4_ClassFromFollowingParagraph ==
    PassDone("wrap") =>
        \A i \in IndicesOf(RootChildren) :
            isTrigger(RootChildren[i]) =>
                /\ i + 1 <= Len(RootChildren)
                /\ RootChildren[i + 1]
                    = ClassMarker(FollowingSaysNot(before.children,
                                                   PositionOf(RootChildren[i])))

\* C4 (amended): the class of the wrapper of every trigger the walk has passed
\* is valid-pattern exactly when the trigger paragraph itself says "not" in its
\* second child.
C4_ClassFromTriggerItself ==
    pass = "wrap" =>
        \A i \in IndicesOf(RootChildren) :
            (i < offset /\ isTrigger(RootChildren[i])) =>
                /\ i + 1 <= Len(RootChildren)
                /\ RootChildren[i + 1] = ClassMarker(SaysNot(RootChildren[i]))

\* A "not" trigger wrapped as valid although nothing follows it that says
\* "not", and a plain trigger wrapped as invalid although a paragraph saying
\* "not" follows it.
C4_Witness ==
    /\ PassDone("wrap")
    /\ \E i \in IndicesOf(RootChildren) :
        /\ isTrigger(RootChildren[i]) /\ SaysNot(RootChildren[i])
        /\ RootChildren[i + 1] = ClassMarker(TRUE)
        /\ ~FollowingSaysNot(before.children, PositionOf(RootChildren[i]))
    /\ \E i \in IndicesOf(RootChildren) :
        /\ isTrigger(RootChildren[i]) /\ ~SaysNot(RootChildren[i])
        /\ RootChildren[i + 1] = ClassMarker(FALSE)
        /\ FollowingSaysNot(before.children, PositionOf(RootChildren[i]))

\* C6: while the admonition pass runs, every blockquote the walk has passed
\* that starts with a strong "Note" or "Warning" stands replaced, at its place,
\* by the opener, the paragraph of the inline children after the strong run
\* (the first one's leading whitespace trimmed, the others as they were) and
\* the closer; every other node is where and what it was.
C6_BlockquoteBecomesThreeParagraphs ==
    (pass = "adm" /\ status = "running") =>
        LET reached == PassedBy(before.children, offset)
        IN RootChildren
            = Admonished(SubSeq(before.children, 1, reached))
              \o SubSeq(before.children, reached + 1, Len(before.children))

C6_Witness ==
    /\ PassDone("adm")
    /\ Len(before.children) = 2
    /\ before.children[1] = WithPosition(Paragraph(<<Text("plain")>>), 1)
    /\ IsAdmonition(before.children[2])
    /\ Len(RootChildren) = 4
    /\ RootChildren[2] = Paragraph(<<Text(":::note Note")>>)
    /\ RootChildren[3] = Paragraph(<<Text("be "), Emphasis(<<Text(" very")>>),
                                     Text(" careful")>>)

\* C1: when the symbol pass has run, each text node that is exactly a symbol
\* stands replaced by its span, and every other node, the siblings of the
\* replaced nodes included, is where and what it was.
C1_OnlySymbolNodeReplaced ==
    PassDone("sym") => tree = Accessible(before)

\* C2: a turn of the admonition walk on a blockquote that does not start with a
\* strong "Note" or "Warning" (no children, a first child that is no
\* paragraph, ...) raises no error and leaves the tree as it was.
C2_NonMatchingPassesThrough ==
    [][(/\ ConvertToAdmonitionsTurn
        /\ RootChildren[offset].type = "blockquote"
        /\ ~IsAdmonition(RootChildren[offset]))
            => (status' = "running" /\ tree' = tree)]_vars

\* C10: when a turn of the admonition walk converts a blockquote, every child
\* of the blockquote after its first paragraph is found in the tree between
\* the opener and the closer.
C10_LaterChildrenKept ==
    [][(ConvertToAdmonitionsTurn /\ IsAdmonition(RootChildren[offset]))
        => \A k \in 2..Len(RootChildren[offset].children) :
            \E j \in (offset + 1)..(CloserAfter(tree'.children, offset) - 1) :
                Occurs(RootChildren[offset].children[k], tree'.children[j])]_vars

\* C9: while the wrapping or the admonition pass runs, the nodes handed to the
\* visitor are the matching nodes the pass received, in document order and
\* none twice; when the pass has ended, every one of them has been handed over.
C9_EveryMatchVisitedOnce ==
    pass \in {"wrap", "adm"} =>
        /\ IsPrefix(visited, MatchingPositions(pass, before.children, 1))
        /\ (status = "thrown" \/ offset > Len(RootChildren))
            => visited = MatchingPositions(pass, before.children, 1)

\* C3: a document without a level-1 heading makes processMarkdown fail and
\* return nothing; when it returns, the title is that of the first level-1
\* heading.
C3_TitleOnlyFromH1 ==
    pass = "meta" =>
        /\ ~HasH1(tree) => (status # "returned" /\ output = "")
        /\ status = "returned" =>
            /\ HasH1(tree)
            /\ output = frontMatter(FirstH1Title(tree)) \o "\n\n" \o ToMarkdown(tree)

\* C7: the output starts with the preamble: title and sidebar_label Home and
\* slug / when the h1 is "Stylelint", title and sidebar_label T and no slug
\* line for any other h1 title T.
C7_PreambleFromH1 ==
    (status = "returned" /\ HasH1(tree)) =>
        output = ClaimedPreamble(FirstH1Title(tree)) \o "\n\n" \o ToMarkdown(tree)

====
